---- MODULE Spec2Model ----
(***************************************************************************)
(* Dishwasher rotation by load: the state document of DishwasherApp and    *)
(* its event handlers (src/roommate_dishwasher_web_app_rotation_by_load.js)*)
(*                                                                         *)
(* A JavaScript string is modelled as the sequence of its characters       *)
(* (<<"A">> is "A", <<>> is ""), so that split, trim and the PIN regular   *)
(* expression are computed character by character.  A credit is counted in *)
(* halves: 1 stands for 0.5, 2 for 1.0.                                    *)
(***************************************************************************)
EXTENDS Integers, Sequences, FiniteSets, TLC

VARIABLES
    state,  \* the React state document {roommates, queue, paused, credits, history, pins}
    last,   \* the last event handled: handler, what the user answered, how it ended
    clock,  \* completions recorded so far; the source of an entry's `when` and `id`
    ops     \* events handled so far

vars == <<state, last, clock, ops>>

----------------------------------------------------------------------------
(* Bounds of the model *)

MaxOps == 2         \* events handled in one behaviour of Spec
HistoryRun == 203   \* completions recorded in one behaviour of SpecHistory
RotationRun == 4    \* loads recorded in one behaviour of SpecRotation

----------------------------------------------------------------------------
(* Strings *)

Range(q) == {q[i] : i \in DOMAIN q}

Take(q, n) == SubSeq(q, 1, IF Len(q) < n THEN Len(q) ELSE n)

Digits == {"0", "1", "2", "3", "4", "5", "6", "7", "8", "9"}

RECURSIVE trimStart(_)
trimStart(str) ==
    IF str # <<>> /\ Head(str) = " " THEN trimStart(Tail(str)) ELSE str

RECURSIVE trimEnd(_)
trimEnd(str) ==
    IF str # <<>> /\ str[Len(str)] = " "
    THEN trimEnd(SubSeq(str, 1, Len(str) - 1))
    ELSE str

trim(str) == trimEnd(trimStart(str))

RECURSIVE split(_, _)
split(str, sep) ==
    IF \E i \in DOMAIN str : str[i] = sep
    THEN LET i == CHOOSE k \in DOMAIN str :
                      str[k] = sep /\ \A j \in 1..(k - 1) : str[j] # sep
         IN  <<SubSeq(str, 1, i - 1)>> \o split(SubSeq(str, i + 1, Len(str)), sep)
    ELSE <<str>>

\* as PinPattern, three digits being enough
PinPatternFromThree(pin) ==
    /\ Len(pin) >= 3
    /\ Len(pin) <= 8
    /\ \A i \in DOMAIN pin : pin[i] \in Digits

\* /^[0-9]{4,8}$/.test(pin)
PinPattern(pin) ==
    /\ Len(pin) >= 4
    /\ Len(pin) <= 8
    /\ \A i \in DOMAIN pin : pin[i] \in Digits

----------------------------------------------------------------------------
(* The values of the program *)

Null == <<"null">>          \* JavaScript's null: no string is equal to it

HistoryCap == 200  \* .slice(0, 200)
HalfCredit == 1             \* 0.5, in halves

Kinds == {"3pm", "night"}

defaultState ==
    [ roommates |-> << <<"A">>, <<"B">>, <<"C">>, <<"D">> >>,
      queue     |-> << <<"A">>, <<"B">>, <<"C">>, <<"D">> >>,
      paused    |-> << >>,
      credits   |-> << >>,
      history   |-> << >>,
      pins      |-> << >> ]

\* paused[n] as a condition: a missing entry is falsy
IsPaused(paused, n) == n \in DOMAIN paused /\ paused[n]

\* credits[n] ?? 0
CreditOf(credits, n) == IF n \in DOMAIN credits THEN credits[n] ELSE 0

\* pins[n] ?? ""   (and pins[n] || "")
PinOf(pins, n) == IF n \in DOMAIN pins THEN pins[n] ELSE <<>>

activeQueue(s) == SelectSeq(s.queue, LAMBDA n : ~IsPaused(s.paused, n))

pausedList(s) == SelectSeq(s.queue, LAMBDA n : IsPaused(s.paused, n))

current(s) == IF activeQueue(s) # <<>> THEN Head(activeQueue(s)) ELSE Null

next(s) == IF Len(activeQueue(s)) >= 2 THEN activeQueue(s)[2] ELSE Null

\* useEffect(..., [roommates]): credits and pins exist for all roommates
ensureEntries(s) ==
    [s EXCEPT
        !.credits = [n \in DOMAIN s.credits \cup Range(s.roommates) |->
                        CreditOf(s.credits, n)],
        !.pins    = [n \in DOMAIN s.pins \cup Range(s.roommates) |->
                        PinOf(s.pins, n)]]

----------------------------------------------------------------------------
(* The handlers.  A handler that can end early returns the document with   *)
(* how it ended; `r` is the rendered document a handler's closure reads,   *)
(* `s` the document its setState updater receives.                         *)

parseNames(value) ==
    LET parts   == split(value, ",")
        trimmed == [i \in DOMAIN parts |-> trim(parts[i])]
    IN  SelectSeq(trimmed, LAMBDA n : n # <<>>)

\* as setRoommatesFromInput, every credit starting again from 0
setRoommatesFromInputZeroCredits(s, value) ==
    LET list == parseNames(value)
    IN  IF list = <<>>
        THEN [doc |-> s, outcome |-> "ignored"]
        ELSE [doc |-> [s EXCEPT
                        !.roommates = list,
                        !.queue   = SelectSeq(list, LAMBDA n : ~IsPaused(s.paused, n)),
                        !.credits = [n \in Range(list) |-> 0],
                        !.pins    = [n \in Range(list) |-> PinOf(s.pins, n)]],
              outcome |-> "ok"]

setRoommatesFromInput(s, value) ==
    LET list == parseNames(value)
    IN  IF list = <<>>
        THEN [doc |-> s, outcome |-> "ignored"]
        ELSE [doc |-> [s EXCEPT
                        !.roommates = list,
                        !.queue   = SelectSeq(list, LAMBDA n : ~IsPaused(s.paused, n)),
                        !.credits = [n \in Range(list) |-> CreditOf(s.credits, n)],
                        !.pins    = [n \in Range(list) |-> PinOf(s.pins, n)]],
              outcome |-> "ok"]

\* Array.prototype.splice(start, deleteCount, ...items) on a copy: the start
\* index is clamped to the array (a negative one counts from the end)
spliceStart(q, start) ==
    IF start < 0
    THEN (IF Len(q) + start < 0 THEN 0 ELSE Len(q) + start)
    ELSE (IF start > Len(q) THEN Len(q) ELSE start)

spliceOut(q, start) ==
    LET k == spliceStart(q, start)
    IN  IF k < Len(q)
        THEN [rest |-> SubSeq(q, 1, k) \o SubSeq(q, k + 2, Len(q)), moved |-> <<q[k + 1]>>]
        ELSE [rest |-> q, moved |-> << >>]

spliceIn(q, start, item) ==
    LET k == spliceStart(q, start)
    IN  SubSeq(q, 1, k) \o <<item>> \o SubSeq(q, k + 1, Len(q))

Undefined == <<"undefined">>    \* JavaScript's undefined

reorderQueue(s, fromIdx, toIdx) ==
    IF fromIdx = toIdx
    THEN [doc |-> s, outcome |-> "ignored"]
    ELSE LET out    == spliceOut(activeQueue(s), fromIdx)
             moved  == IF out.moved = << >> THEN Undefined ELSE out.moved[1]
             active == spliceIn(out.rest, toIdx, moved)
         IN  [doc |-> [s EXCEPT !.queue = active \o pausedList(s)], outcome |-> "ok"]

\* as advanceQueue, the paused names not put back behind the rotated ones
advanceQueueDropsPaused(r, s) ==
    IF activeQueue(r) = <<>>
    THEN s
    ELSE LET rotated == Tail(activeQueue(r)) \o <<Head(activeQueue(r))>>
         IN  [s EXCEPT !.queue = rotated]

\* as advanceQueue, the head changing places with the next one
advanceQueueSwapsHead(r, s) ==
    IF activeQueue(r) = <<>>
    THEN s
    ELSE LET a == activeQueue(r)
             swapped == IF Len(a) = 1 THEN a
                        ELSE <<a[2], a[1]>> \o SubSeq(a, 3, Len(a))
         IN  [s EXCEPT !.queue = swapped \o pausedList(r)]

advanceQueue(r, s) ==
    IF activeQueue(r) = <<>>
    THEN s
    ELSE LET rotated == Tail(activeQueue(r)) \o <<Head(activeQueue(r))>>
         IN  [s EXCEPT !.queue = rotated \o pausedList(r)]

\* as togglePause, the paused names put in front of the active ones
togglePausePausedFirst(s, name) ==
    LET p == [n \in DOMAIN s.paused \cup {name} |->
                 IF n = name THEN ~IsPaused(s.paused, name) ELSE s.paused[n]]
        active == SelectSeq(s.queue, LAMBDA n : ~IsPaused(p, n))
        pausedL == SelectSeq(s.queue, LAMBDA n : IsPaused(p, n))
    IN  [s EXCEPT !.paused = p, !.queue = pausedL \o active]

togglePauseKeepsPlace(s, name) ==
    LET p == [n \in DOMAIN s.paused \cup {name} |->
                 IF n = name THEN ~IsPaused(s.paused, name) ELSE s.paused[n]]
    IN  [s EXCEPT !.paused = p]

togglePause(s, name) ==
    LET p == [n \in DOMAIN s.paused \cup {name} |->
                 IF n = name THEN ~IsPaused(s.paused, name) ELSE s.paused[n]]
        active == SelectSeq(s.queue, LAMBDA n : ~IsPaused(p, n))
        pausedL == SelectSeq(s.queue, LAMBDA n : IsPaused(p, n))
    IN  [s EXCEPT !.paused = p, !.queue = active \o pausedL]

setPin(s, name, pinRaw) ==
    LET pin == trim(pinRaw)
    IN  IF pin # <<>> /\ ~PinPattern(pin)
        THEN [doc |-> s, outcome |-> "alertInvalidPin"]
        ELSE [doc |-> [s EXCEPT !.pins =
                        [n \in DOMAIN s.pins \cup {name} |->
                            IF n = name THEN pin ELSE s.pins[n]]],
              outcome |-> "ok"]

\* A prompt's answer: cancelled (null) or the text typed
Cancelled == [cancelled |-> TRUE, text |-> <<>>]
Typed(text) == [cancelled |-> FALSE, text |-> text]

\* whether requirePinFor(name) shows the PIN prompt
pinPromptShown(s, name) == trim(PinOf(s.pins, name)) # <<>>

\* as requirePinFor, the PIN entered compared as typed
requirePinForAsTyped(s, name, reply) ==
    LET expected == trim(PinOf(s.pins, name))
    IN  IF expected = <<>>
        THEN TRUE
        ELSE ~reply.cancelled /\ reply.text = expected

requirePinFor(s, name, reply) ==
    LET expected == trim(PinOf(s.pins, name))
    IN  IF expected = <<>>
        THEN TRUE
        ELSE ~reply.cancelled /\ trim(reply.text) = expected

\* as addCredits, the history cut one entry later
addCreditsKeepsOneMore(s, runBy, unloadBy, kind, now) ==
    LET c1 == IF runBy # <<>>
              THEN [n \in DOMAIN s.credits \cup {runBy} |->
                       IF n = runBy THEN CreditOf(s.credits, n) + HalfCredit
                                    ELSE s.credits[n]]
              ELSE s.credits
        c2 == IF unloadBy # <<>>
              THEN [n \in DOMAIN c1 \cup {unloadBy} |->
                       IF n = unloadBy THEN CreditOf(c1, n) + HalfCredit
                                       ELSE c1[n]]
              ELSE c1
        entry == [ id |-> now, when |-> now, kind |-> kind,
                   runBy |-> runBy, unloadBy |-> unloadBy,
                   runCredit |-> HalfCredit, unloadCredit |-> HalfCredit ]
    IN  [s EXCEPT !.credits = c2,
                  !.history = Take(<<entry>> \o s.history, HistoryCap + 1)]

\* as addCredits, the unloader's half credited to the runner
addCreditsAllToRunner(s, runBy, unloadBy, kind, now) ==
    LET c1 == IF runBy # <<>>
              THEN [n \in DOMAIN s.credits \cup {runBy} |->
                       IF n = runBy THEN CreditOf(s.credits, n) + HalfCredit
                                    ELSE s.credits[n]]
              ELSE s.credits
        c2 == IF unloadBy # <<>>
              THEN [n \in DOMAIN c1 \cup {runBy} |->
                       IF n = runBy THEN CreditOf(c1, n) + HalfCredit
                                    ELSE c1[n]]
              ELSE c1
        entry == [ id |-> now, when |-> now, kind |-> kind,
                   runBy |-> runBy, unloadBy |-> unloadBy,
                   runCredit |-> HalfCredit, unloadCredit |-> HalfCredit ]
    IN  [s EXCEPT !.credits = c2,
                  !.history = Take(<<entry>> \o s.history, HistoryCap)]

addCredits(s, runBy, unloadBy, kind, now) ==
    LET c1 == IF runBy # <<>>
              THEN [n \in DOMAIN s.credits \cup {runBy} |->
                       IF n = runBy THEN CreditOf(s.credits, n) + HalfCredit
                                    ELSE s.credits[n]]
              ELSE s.credits
        c2 == IF unloadBy # <<>>
              THEN [n \in DOMAIN c1 \cup {unloadBy} |->
                       IF n = unloadBy THEN CreditOf(c1, n) + HalfCredit
                                       ELSE c1[n]]
              ELSE c1
        entry == [ id |-> now, when |-> now, kind |-> kind,
                   runBy |-> runBy, unloadBy |-> unloadBy,
                   runCredit |-> HalfCredit, unloadCredit |-> HalfCredit ]
    IN  [s EXCEPT !.credits = c2,
                  !.history = Take(<<entry>> \o s.history, HistoryCap)]

completeLoad(r, kind, runBy, unloadBy, advance, now) ==
    LET s1 == addCredits(r, runBy, unloadBy, kind, now)
    IN  IF advance THEN advanceQueue(r, s1) ELSE s1

defaultName(s) ==
    IF current(s) # Null THEN current(s)
    ELSE IF s.roommates # <<>> THEN s.roommates[1]
    ELSE <<>>

\* prompt(...)?.trim() || fallback
answerOr(reply, fallback) ==
    IF reply.cancelled \/ trim(reply.text) = <<>> THEN fallback ELSE trim(reply.text)

\* as handleComplete, the runner credited as soon as the runner's PIN passed
handleCompleteCreditsRunnerFirst(s, kind, runReply, runPin, unloadReply, unloadPin, now) ==
    LET runBy    == answerOr(runReply, defaultName(s))
        unloadBy == answerOr(unloadReply, runBy)
    IN  IF runBy = <<>>
        THEN [doc |-> s, outcome |-> "alertNoRoommates"]
        ELSE IF ~requirePinFor(s, runBy, runPin)
        THEN [doc |-> s, outcome |-> "runnerDenied"]
        ELSE IF ~requirePinFor(s, unloadBy, unloadPin)
        THEN [doc |-> addCredits(s, runBy, <<>>, kind, now), outcome |-> "unloaderDenied"]
        ELSE [doc |-> completeLoad(s, kind, runBy, unloadBy, TRUE, now),
              outcome |-> "committed"]

\* as handleComplete, the unloader's PIN not asked for
handleCompleteTrustsUnloader(s, kind, runReply, runPin, unloadReply, unloadPin, now) ==
    LET runBy    == answerOr(runReply, defaultName(s))
        unloadBy == answerOr(unloadReply, runBy)
    IN  IF runBy = <<>>
        THEN [doc |-> s, outcome |-> "alertNoRoommates"]
        ELSE IF ~requirePinFor(s, runBy, runPin)
        THEN [doc |-> s, outcome |-> "runnerDenied"]
        ELSE IF unloadBy = <<>>
        THEN [doc |-> s, outcome |-> "alertNoRoommates"]
        ELSE [doc |-> completeLoad(s, kind, runBy, unloadBy, TRUE, now),
              outcome |-> "committed"]

handleComplete(s, kind, runReply, runPin, unloadReply, unloadPin, now) ==
    LET runBy    == answerOr(runReply, defaultName(s))
        unloadBy == answerOr(unloadReply, runBy)
    IN  IF runBy = <<>>
        THEN [doc |-> s, outcome |-> "alertNoRoommates"]
        ELSE IF ~requirePinFor(s, runBy, runPin)
        THEN [doc |-> s, outcome |-> "runnerDenied"]
        ELSE IF unloadBy = <<>>
        THEN [doc |-> s, outcome |-> "alertNoRoommates"]
        ELSE IF ~requirePinFor(s, unloadBy, unloadPin)
        THEN [doc |-> s, outcome |-> "unloaderDenied"]
        ELSE [doc |-> completeLoad(s, kind, runBy, unloadBy, TRUE, now),
              outcome |-> "committed"]

quickClaimRunnerIsClaimer(s, kind, name, action, pinReply, now) ==
    IF ~requirePinFor(s, name, pinReply)
    THEN [doc |-> s, outcome |-> "denied"]
    ELSE IF action \in {"run", "unload"}
    THEN [doc |-> completeLoad(s, kind, name, name, TRUE, now), outcome |-> "committed"]
    ELSE [doc |-> s, outcome |-> "ignored"]

quickClaim(s, kind, name, action, pinReply, now) ==
    IF ~requirePinFor(s, name, pinReply)
    THEN [doc |-> s, outcome |-> "denied"]
    ELSE IF action = "run"
    THEN [doc |-> completeLoad(s, kind, name, name, TRUE, now), outcome |-> "committed"]
    ELSE IF action = "unload"
    THEN LET runner == IF current(s) # Null THEN current(s) ELSE name
         IN  [doc |-> completeLoad(s, kind, runner, name, TRUE, now),
              outcome |-> "committed"]
    ELSE [doc |-> s, outcome |-> "ignored"]

\* as resetCredits, the answer of the confirm dialog taken the wrong way round
resetCreditsUnlessConfirmed(s, confirmed) ==
    IF confirmed
    THEN [doc |-> s, outcome |-> "declined"]
    ELSE [doc |-> [s EXCEPT !.credits = [n \in DOMAIN s.credits |-> 0]],
          outcome |-> "ok"]

resetCredits(s, confirmed) ==
    IF ~confirmed
    THEN [doc |-> s, outcome |-> "declined"]
    ELSE [doc |-> [s EXCEPT !.credits = [n \in DOMAIN s.credits |-> 0]],
          outcome |-> "ok"]

----------------------------------------------------------------------------
(* What the user can type *)

\* the roster field: "A, B, C, D", " B ,,", "C,E,C", " , "
RosterInputs ==
    { <<"A", ",", " ", "B", ",", " ", "C", ",", " ", "D">>,
      <<" ", "B", " ", ",", ",">>,
      <<"C", ",", "E", ",", "C">>,
      <<" ", ",", " ">> }

\* a PIN field: "", "123", "1234", " 12345678 ", "12a4", "123456789"
PinInputs ==
    { <<>>,
      <<"1", "2", "3">>,
      <<"1", "2", "3", "4">>,
      <<" ", "1", "2", "3", "4", "5", "6", "7", "8", " ">>,
      <<"1", "2", "a", "4">>,
      <<"1", "2", "3", "4", "5", "6", "7", "8", "9">> }

\* a "Who RAN it?" / "Who UNLOADED it?" prompt: Cancel, "", " B ", "E"
NameReplies ==
    { Cancelled, Typed(<<>>), Typed(<<" ", "B", " ">>), Typed(<<"E">>) }

\* an "Enter PIN for ..." prompt: Cancel, " 1234 ", "0000", "12345678"
PinReplies ==
    { Cancelled,
      Typed(<<" ", "1", "2", "3", "4", " ">>),
      Typed(<<"0", "0", "0", "0">>),
      Typed(<<"1", "2", "3", "4", "5", "6", "7", "8">>) }

----------------------------------------------------------------------------
(* The state machine: one action per event handler *)

\* op: the handler; outcome: how it ended; who, text, arg: its arguments and
\* what was typed; declined: a dialog it showed was cancelled; auth: what the
\* PIN checks it made answered
Event(op, outcome, who, text, arg, declined, auth) ==
    [ op |-> op, outcome |-> outcome, who |-> who, text |-> text,
      arg |-> arg, declined |-> declined, auth |-> auth ]

Init ==
    /\ state = ensureEntries(defaultState)
    /\ last = Event("init", "ok", Null, <<>>, "", FALSE, "none")
    /\ clock = 0
    /\ ops = 0

Tick == ops < MaxOps /\ ops' = ops + 1

\* onBlur of the names field
SetRoommatesFromInput ==
    /\ Tick
    /\ \E value \in RosterInputs :
          LET res == setRoommatesFromInput(state, value)
          IN  /\ state' = IF res.outcome = "ok" THEN ensureEntries(res.doc) ELSE res.doc
              /\ last' = Event("setRoommatesFromInput", res.outcome, Null, value, "", FALSE, "none")
    /\ UNCHANGED clock

\* the up and down buttons of an active queue entry
ReorderQueue ==
    /\ Tick
    /\ \E idx \in 0..(Len(activeQueue(state)) - 1), dir \in {"up", "down"} :
          LET n   == Len(activeQueue(state))
              to  == IF dir = "up"
                     THEN (IF idx - 1 < 0 THEN 0 ELSE idx - 1)
                     ELSE (IF idx + 1 > n - 1 THEN n - 1 ELSE idx + 1)
              res == reorderQueue(state, idx, to)
          IN  /\ state' = res.doc
              /\ last' = Event("reorderQueue", res.outcome, Null, <<>>, dir, FALSE, "none")
    /\ UNCHANGED clock

\* the Pause / Unpause button of a roommate.  The button is rendered for the
\* active names; the handler serves both labels and is taken here for every
\* member of the roster
TogglePause ==
    /\ Tick
    /\ \E name \in Range(state.roommates) :
          /\ state' = togglePause(state, name)
          /\ last' = Event("togglePause", "ok", name, <<>>, "", FALSE, "none")
    /\ UNCHANGED clock

\* onBlur of a roommate's PIN field, and its Clear button
SetPin ==
    /\ Tick
    /\ \E name \in Range(state.roommates), pinRaw \in PinInputs :
          LET res == setPin(state, name, pinRaw)
          IN  /\ state' = res.doc
              /\ last' = Event("setPin", res.outcome, name, pinRaw, "", FALSE, "none")
    /\ UNCHANGED clock

PinAnswers(s, name, pinReplies) ==
    IF pinPromptShown(s, name) THEN pinReplies ELSE {Cancelled}

\* "Record 3 PM" / "Record Night": the prompts and what they lead to
Complete(kinds, nameReplies, pinReplies) ==
    \E kind \in kinds, runReply \in nameReplies, unloadReply \in nameReplies :
       LET runBy    == answerOr(runReply, defaultName(state))
           unloadBy == answerOr(unloadReply, runBy)
       IN  \E runPin \in PinAnswers(state, runBy, pinReplies),
              unloadPin \in PinAnswers(state, unloadBy, pinReplies) :
              LET res == handleComplete(state, kind, runReply, runPin,
                                        unloadReply, unloadPin, clock + 1)
                  runnerPassed == runBy # <<>> /\ requirePinFor(state, runBy, runPin)
                  unloaderPassed == requirePinFor(state, unloadBy, unloadPin)
                  declined ==
                      \/ runReply.cancelled
                      \/ pinPromptShown(state, runBy) /\ runPin.cancelled
                      \/ runnerPassed /\ unloadReply.cancelled
                      \/ runnerPassed /\ pinPromptShown(state, unloadBy)
                                      /\ unloadPin.cancelled
              IN  /\ state' = res.doc
                  /\ last' = Event("handleComplete", res.outcome, runBy, unloadBy,
                                   kind, declined,
                                   IF ~runnerPassed THEN "runnerFail"
                                   ELSE IF ~unloaderPassed THEN "unloaderFail"
                                   ELSE "pass")
                  /\ clock' = IF res.outcome = "committed" THEN clock + 1 ELSE clock

HandleComplete == Tick /\ Complete(Kinds, NameReplies, PinReplies)

\* a quick-claim button of a roommate, its PIN prompt and what they lead to
Claim(kinds, names, actions) ==
       \E kind \in kinds, name \in names, action \in actions :
          \E pinReply \in PinAnswers(state, name, PinReplies) :
             LET res == quickClaim(state, kind, name, action, pinReply, clock + 1)
             IN  /\ state' = res.doc
                 /\ last' = Event("quickClaim", res.outcome, name, <<>>, action,
                                  pinPromptShown(state, name) /\ pinReply.cancelled,
                                  IF requirePinFor(state, name, pinReply)
                                  THEN "pass" ELSE "fail")
                 /\ clock' = IF res.outcome = "committed" THEN clock + 1 ELSE clock

\* the four quick-claim buttons of a roommate
QuickClaim == Tick /\ Claim(Kinds, Range(state.roommates), {"run", "unload"})

\* the "Reset credits" link and its confirm dialog
ResetCredits ==
    /\ Tick
    /\ \E confirmed \in BOOLEAN :
          LET res == resetCredits(state, confirmed)
          IN  /\ state' = res.doc
              /\ last' = Event("resetCredits", res.outcome, Null, <<>>, "", ~confirmed, "none")
    /\ UNCHANGED clock

Next ==
    \/ SetRoommatesFromInput
    \/ ReorderQueue
    \/ TogglePause
    \/ SetPin
    \/ HandleComplete
    \/ QuickClaim
    \/ ResetCredits

Spec == Init /\ [][Next]_vars

\* "Record 3 PM" pressed again and again, both prompts left blank
RecordDefaultLoad ==
    /\ clock < HistoryRun
    /\ Complete({"3pm"}, {Typed(<<>>)}, PinReplies)
    /\ UNCHANGED ops

NextHistory == RecordDefaultLoad

SpecHistory == Init /\ [][NextHistory]_vars

\* The handlers called with arguments that the rendered controls never pass:
\* reorderQueue with indices outside the active queue (the buttons clamp
\* theirs), togglePause with a name that is not in the roster (the buttons are
\* rendered for queue members)
Names == {<<"A">>, <<"B">>, <<"C">>, <<"D">>, <<"E">>}

ReorderQueueAt ==
    /\ Tick
    /\ \E fromIdx \in (0 - 1)..Len(activeQueue(state)),
          toIdx \in (0 - 1)..Len(activeQueue(state)) :
          LET res == reorderQueue(state, fromIdx, toIdx)
          IN  /\ state' = res.doc
              /\ last' = Event("reorderQueueAt", res.outcome, Null, <<>>,
                               <<fromIdx, toIdx>>, FALSE, "none")
    /\ UNCHANGED clock

TogglePauseNamed ==
    /\ Tick
    /\ \E name \in Names \ Range(state.roommates) :
          /\ state' = togglePause(state, name)
          /\ last' = Event("togglePauseNamed", "ok", name, <<>>, "", FALSE, "none")
    /\ UNCHANGED clock

NextHandlers ==
    \/ Next
    \/ ReorderQueueAt
    \/ TogglePauseNamed

SpecHandlers == Init /\ [][NextHandlers]_vars

\* The rotation left to itself: the roster, the pauses and the order are
\* arranged first (MaxOps events), and from then on loads are recorded and
\* nothing else happens: "Record 3 PM" with both prompts left blank, or the
\* night "I unloaded" button of the roommate that the blank prompts stand for.
\* Nobody has a PIN here, so every one of these events commits.  RotationRun
\* loads are recorded.
ArrangeQueue ==
    \/ SetRoommatesFromInput
    \/ ReorderQueue
    \/ TogglePause

RecordLoad ==
    /\ ops = MaxOps
    /\ clock < RotationRun
    /\ \/ Complete({"3pm"}, {Typed(<<>>)}, PinReplies)
       \/ Claim({"night"}, {defaultName(state)}, {"unload"})
    /\ UNCHANGED ops

NextRotation ==
    \/ ArrangeQueue
    \/ RecordLoad

\* loads keep being recorded: the users go on pressing the buttons while there
\* is a load left to record
SpecRotation ==
    Init /\ [][NextRotation]_vars /\ WF_vars(RecordLoad /\ clock' = clock + 1)

----------------------------------------------------------------------------
(* Vocabulary of the properties *)

Count(q, n) == Cardinality({i \in DOMAIN q : q[i] = n})

\* the names of the document that are paused
PausedNames(s) == {n \in DOMAIN s.paused : s.paused[n]}

\* every position of an unpaused name comes before every position of a paused one
ActiveThenPaused(s) ==
    \A i, j \in DOMAIN s.queue :
        (IsPaused(s.paused, s.queue[i]) /\ ~IsPaused(s.paused, s.queue[j])) => j < i

----------------------------------------------------------------------------
(* C1: in every reachable state the queue is a permutation of the roster   *)
(* (each name as often in the queue as in the roster, nothing else in it), *)
(* its unpaused members first and its paused members after them.           *)
(* Refuted: setRoommatesFromInput builds the queue from the unpaused names *)
(* only, so a paused roommate falls out of the queue.                      *)
QueueIsPartitionedRoster ==
    /\ \A n \in Range(state.roommates) \cup Range(state.queue) :
          Count(state.queue, n) = Count(state.roommates, n)
    /\ ActiveThenPaused(state)

----------------------------------------------------------------------------
(* C2: a load-completion attempt (handleComplete) changes the document     *)
(* only when it commits, and it commits only when the runner's PIN check   *)
(* and then the unloader's PIN check both passed; when the runner's check  *)
(* fails, or the runner's passes and the unloader's fails, the attempt     *)
(* ends denied with credits, history, queue, paused-set, PINs and roster   *)
(* exactly as before.                                                      *)
DeniedAttemptChangesNothing ==
    [][ last'.op = "handleComplete" =>
          /\ last'.auth = "runnerFail" =>
                state' = state /\ last'.outcome = "runnerDenied"
          /\ last'.auth = "unloaderFail" =>
                state' = state /\ last'.outcome = "unloaderDenied"
          /\ state' # state =>
                last'.outcome = "committed" /\ last'.auth = "pass" ]_vars

\* an attempt has just ended at the unloader's PIN, the runner's check passed
UnloaderDeniedReached ==
    /\ last.op = "handleComplete"
    /\ last.auth = "unloaderFail"
    /\ last.outcome = "unloaderDenied"
    /\ PinOf(state.pins, last.text) # <<>>

----------------------------------------------------------------------------
(* C3: in a load-completion attempt, cancelling any dialog it shows (the   *)
(* runner prompt, the unloader prompt, a PIN prompt) aborts the attempt    *)
(* and leaves the document unchanged.                                      *)
(* Refuted: handleComplete reads a cancelled name prompt as a blank one    *)
(* and goes on with the default name.                                      *)
CancelAborts ==
    [][ (last'.op = "handleComplete" /\ last'.declined) => state' = state ]_vars

----------------------------------------------------------------------------
(* C4, as claimed: no step other than a confirmed reset of the credits     *)
(* makes anybody's credit smaller (a missing ledger entry counting as 0).  *)
CreditLoweredOnlyByReset ==
    [][ ~(last'.op = "resetCredits" /\ last'.outcome = "ok") =>
          \A n \in DOMAIN state.credits :
              CreditOf(state'.credits, n) >= CreditOf(state.credits, n) ]_vars

(* C4, amended: a step makes a participant's credit smaller only when it   *)
(* is a confirmed reset of the credits, or a replacement of the roster     *)
(* that leaves the participant out of the new roster (their ledger entry   *)
(* is removed with them); a replacement of the roster keeps the credit of  *)
(* every name it keeps, and no other step lowers a credit.                 *)
CreditLoweredOnlyByResetOrRemoval ==
    [][ \A n \in DOMAIN state.credits :
          \/ CreditOf(state'.credits, n) >= CreditOf(state.credits, n)
          \/ last'.op = "resetCredits" /\ last'.outcome = "ok"
          \/ /\ last'.op = "setRoommatesFromInput"
             /\ last'.outcome = "ok"
             /\ n \notin Range(state'.roommates) ]_vars

\* the roster has just been replaced and a roommate it kept has kept a credit
CreditKeptAcrossRosterEdit ==
    /\ last.op = "setRoommatesFromInput"
    /\ last.outcome = "ok"
    /\ \E n \in Range(state.roommates) : CreditOf(state.credits, n) > 0

----------------------------------------------------------------------------
(* C5, as claimed: in every reachable state and for every roster member x, *)
(* togglePause(x) applied twice in succession gives back the paused-set    *)
(* (the same names paused) and the queue.                                  *)
ToggledTwice(s, x) == togglePause(togglePause(s, x), x)

Without(q, x) == SelectSeq(q, LAMBDA n : n # x)

Only(q, x) == SelectSeq(q, LAMBDA n : n = x)

TogglePauseTwiceRestores ==
    \A x \in Range(state.roommates) :
        /\ PausedNames(ToggledTwice(state, x)) = PausedNames(state)
        /\ ToggledTwice(state, x).queue = state.queue

(* C5, amended: togglePause(x) applied twice in succession gives back the  *)
(* paused-set (the same names paused) and a queue with the same members,   *)
(* every member other than x in its former order, and x at the boundary    *)
(* between the active and the paused members: after every other active     *)
(* member and before every other paused one.  Roster, credits, history and *)
(* PINs are as before.                                                     *)
TogglePauseTwiceMovesToBoundary ==
    \A x \in Range(state.roommates) :
        LET t == ToggledTwice(state, x)
        IN  /\ PausedNames(t) = PausedNames(state)
            /\ t.queue = Without(activeQueue(state), x)
                            \o Only(state.queue, x)
                            \o Without(pausedList(state), x)
            /\ [t EXCEPT !.paused = <<>>, !.queue = <<>>]
                  = [state EXCEPT !.paused = <<>>, !.queue = <<>>]

\* a roommate has just been paused or unpaused, and toggling a paused one twice
\* would leave the queue in another order
ToggleTwiceReordersReached ==
    /\ last.op = "togglePause"
    /\ \E x \in Range(state.roommates) :
          /\ IsPaused(state.paused, x)
          /\ ToggledTwice(state, x).queue # state.queue

----------------------------------------------------------------------------
(* C6: a committed load completion (kind, a, b) is one step that raises    *)
(* the credit of a and of b by 0.5 each (by 1.0 when a = b), leaves every  *)
(* other credit as it was, puts one new history entry {kind, runBy = a,    *)
(* unloadBy = b, runCredit = 0.5, unloadCredit = 0.5} in front of the      *)
(* history, and rotates the active queue left by one, the paused suffix,   *)
(* the roster, the paused-set and the PINs unchanged.  From the default    *)
(* state, runner A and unloader B give credits A 0.5, B 0.5, C 0, D 0 and  *)
(* the queue B, C, D, A.                                                   *)
RotatedLeft(q) == IF q = <<>> THEN <<>> ELSE Tail(q) \o <<Head(q)>>

CommittedCompletion ==
    [][ last'.outcome = "committed" =>
          /\ state'.history # <<>>
          /\ LET e == state'.history[1]
                 a == e.runBy
                 b == e.unloadBy
             IN  /\ last'.op = "handleComplete" =>
                        a = last'.who /\ b = last'.text /\ e.kind = last'.arg
                 /\ last'.op = "quickClaim" => b = last'.who
                 /\ e.kind \in Kinds
                 /\ e.runCredit = HalfCredit /\ e.unloadCredit = HalfCredit
                 /\ Tail(state'.history) = Take(state.history, HistoryCap - 1)
                 /\ \A n \in DOMAIN state.credits \cup DOMAIN state'.credits \cup {a, b} :
                        CreditOf(state'.credits, n) =
                            CreditOf(state.credits, n)
                              + (IF n = a THEN HalfCredit ELSE 0)
                              + (IF n = b THEN HalfCredit ELSE 0)
                 /\ state'.queue = RotatedLeft(activeQueue(state)) \o pausedList(state)
                 /\ state'.roommates = state.roommates
                 /\ state'.paused = state.paused
                 /\ state'.pins = state.pins
          /\ ( /\ state = ensureEntries(defaultState)
               /\ last'.op = "handleComplete"
               /\ last'.who = <<"A">>
               /\ last'.text = <<"B">> )
             => /\ state'.credits = (<<"A">> :> HalfCredit @@ <<"B">> :> HalfCredit
                                      @@ <<"C">> :> 0 @@ <<"D">> :> 0)
                /\ state'.queue = << <<"B">>, <<"C">>, <<"D">>, <<"A">> >>
                /\ Len(state'.history) = 1 ]_vars

\* a completion by a runner and another unloader has just been committed
CompletionByTwoReached ==
    /\ last.op = "handleComplete"
    /\ last.outcome = "committed"
    /\ last.who # last.text
    /\ state.history # <<>>
    /\ state.history[1].runBy = last.who
    /\ state.history[1].unloadBy = last.text

----------------------------------------------------------------------------
(* C7: in every reachable state, advanceQueue rotates the active           *)
(* (unpaused) part of the queue left by one, its head becoming its last    *)
(* member, and leaves the paused suffix, the roster, the paused-set, the   *)
(* credits, the history and the PINs as they are; it changes nothing when  *)
(* no member is active; applied n times to an active queue of n members it *)
(* gives back the queue, and no fewer applications do when the active      *)
(* names are all different.                                                *)
Advanced(s) == advanceQueue(s, s)

RECURSIVE AdvancedTimes(_, _)
AdvancedTimes(s, k) == IF k = 0 THEN s ELSE AdvancedTimes(Advanced(s), k - 1)

AdvanceRotatesActive ==
    LET a == activeQueue(state)
        p == pausedList(state)
        t == Advanced(state)
    IN  /\ a = <<>> => t = state
        /\ a # <<>> =>
              /\ t.queue = Tail(a) \o <<Head(a)>> \o p
              /\ activeQueue(t) = Tail(a) \o <<Head(a)>>
              /\ pausedList(t) = p
        /\ [t EXCEPT !.queue = <<>>] = [state EXCEPT !.queue = <<>>]
        /\ AdvancedTimes(state, Len(a)).queue = state.queue
        /\ Cardinality(Range(a)) = Len(a) =>
              \A k \in 1..(Len(a) - 1) : AdvancedTimes(state, k).queue # state.queue

\* a completion has just advanced a queue of several active members that has
\* a paused suffix
AdvancedPastPausedReached ==
    /\ last.outcome = "committed"
    /\ Len(activeQueue(state)) >= 2
    /\ pausedList(state) # <<>>
    /\ Advanced(state) # state

\* nobody is active: advancing changes nothing
NobodyActiveReached ==
    /\ state.queue # <<>>
    /\ activeQueue(state) = <<>>
    /\ Advanced(state) = state

----------------------------------------------------------------------------
(* C8: the history never holds more than 200 entries and is ordered most   *)
(* recent first: it holds exactly the latest completions, as many as were  *)
(* committed up to 200, the i-th entry being the i-th latest.  So once 201 *)
(* completions are committed the first one is gone and the 200 latest      *)
(* remain, and every further completion drops the single oldest entry.     *)
(* Checked under SpecHistory, which records more than 200 completions.     *)
HistoryHoldsLatest ==
    /\ Len(state.history) <= HistoryCap
    /\ Len(state.history) = (IF clock < HistoryCap THEN clock ELSE HistoryCap)
    /\ \A i \in DOMAIN state.history :
          /\ state.history[i].when = clock - i + 1
          /\ state.history[i].id = clock - i + 1

\* 201 completions are committed: the first is gone, the 200 latest remain
OldestDroppedReached ==
    /\ clock = HistoryCap + 1
    /\ Len(state.history) = HistoryCap
    /\ state.history[1].when = HistoryCap + 1
    /\ state.history[HistoryCap].when = 2
    /\ \A i \in DOMAIN state.history : state.history[i].when # 1

----------------------------------------------------------------------------
(* C9: in every reachable state, requirePinFor(name) with the answer s to  *)
(* its prompt allows when the stored PIN of name is empty, whatever s is   *)
(* (no prompt is shown), and otherwise allows exactly when s, trimmed, is  *)
(* the stored PIN; a cancelled prompt is denied when a PIN is set.         *)
PinChecked ==
    \A name \in Range(state.roommates) \cup {<<"E">>} :
        \A reply \in PinReplies \cup {Typed(<<>>)} :
            LET stored == PinOf(state.pins, name)
            IN  /\ stored = <<>> =>
                      requirePinFor(state, name, reply) /\ ~pinPromptShown(state, name)
                /\ stored # <<>> =>
                      requirePinFor(state, name, reply)
                          = (~reply.cancelled /\ trim(reply.text) = stored)

\* a roommate with a PIN has just passed the check and claimed a load
PinPassedReached ==
    /\ last.op = "quickClaim"
    /\ last.auth = "pass"
    /\ last.outcome = "committed"
    /\ PinOf(state.pins, last.who) # <<>>

----------------------------------------------------------------------------
(* C10: setPin(name, candidate) with a trimmed candidate that is not empty *)
(* and not 4 to 8 decimal digits is refused and changes nothing; with a    *)
(* trimmed candidate of 4 to 8 digits it stores exactly that string for    *)
(* name, and with an empty one it stores the empty PIN, the other PINs and *)
(* the rest of the document unchanged.  So in every reachable state every  *)
(* stored PIN is empty or a string of 4 to 8 digits.                       *)
WellFormedPin(pin) ==
    \/ pin = <<>>
    \/ Len(pin) \in 4..8 /\ \A i \in DOMAIN pin : pin[i] \in Digits

SetPinStep ==
    last'.op = "setPin" =>
        LET candidate == trim(last'.text)
            name      == last'.who
        IN  IF ~WellFormedPin(candidate)
            THEN state' = state /\ last'.outcome = "alertInvalidPin"
            ELSE /\ last'.outcome = "ok"
                 /\ PinOf(state'.pins, name) = candidate
                 /\ DOMAIN state'.pins = DOMAIN state.pins \cup {name}
                 /\ \A n \in DOMAIN state.pins \ {name} : state'.pins[n] = state.pins[n]
                 /\ [state' EXCEPT !.pins = <<>>] = [state EXCEPT !.pins = <<>>]

StoredPinsWellFormed ==
    /\ [](\A n \in DOMAIN state.pins : WellFormedPin(state.pins[n]))
    /\ [][SetPinStep]_vars

\* a malformed candidate has just been refused for a roommate who has a PIN
InvalidPinRefusedReached ==
    /\ last.op = "setPin"
    /\ last.outcome = "alertInvalidPin"
    /\ trim(last.text) # <<>>
    /\ PinOf(state.pins, last.who) # <<>>

----------------------------------------------------------------------------
(* C11: when the roster is replaced by one that no longer holds a          *)
(* participant x, x is no longer in the queue and has no paused-set entry, *)
(* no credit entry and no PIN entry any more.                              *)
(* Refuted: setRoommatesFromInput leaves the paused-set as it is, so a     *)
(* removed roommate stays paused (and comes back paused, outside the       *)
(* queue, when the name is added again).                                   *)
RemovedNameLeavesNoEntry ==
    [][ (last'.op = "setRoommatesFromInput" /\ last'.outcome = "ok") =>
          \A x \in Range(state.roommates) \ Range(state'.roommates) :
              /\ x \notin Range(state'.queue)
              /\ x \notin DOMAIN state'.paused
              /\ x \notin DOMAIN state'.credits
              /\ x \notin DOMAIN state'.pins ]_vars

----------------------------------------------------------------------------
(* C12: after a roster edit with a non-empty list R the credit map and the *)
(* PIN map are keyed by exactly the names of R; a name that was already in *)
(* the roster keeps its credit and its PIN, a name new to the roster gets  *)
(* credit 0 and the empty PIN, and the history is unchanged; an edit whose *)
(* list is empty after trimming leaves the whole document unchanged.       *)
(* Refuted for the credit of a new name: a name that is not in the roster  *)
(* can own a ledger entry (a completion accepts any typed name, see C20),  *)
(* and a roster edit that adds the name gives it that credit.              *)
RosterEditRekeysMaps ==
    [][ last'.op = "setRoommatesFromInput" =>
          IF last'.outcome = "ok"
          THEN /\ DOMAIN state'.credits = Range(state'.roommates)
               /\ DOMAIN state'.pins = Range(state'.roommates)
               /\ \A n \in Range(state'.roommates) :
                     IF n \in Range(state.roommates)
                     THEN /\ state'.credits[n] = CreditOf(state.credits, n)
                          /\ state'.pins[n] = PinOf(state.pins, n)
                     ELSE /\ state'.credits[n] = 0
                          /\ state'.pins[n] = <<>>
               /\ state'.history = state.history
          ELSE /\ parseNames(last'.text) = <<>>
               /\ state' = state ]_vars

----------------------------------------------------------------------------
(* C13: togglePause(name) flips the paused-set entry of name and leaves    *)
(* every other entry alone, and the queue becomes the old queue's members  *)
(* that are now unpaused, in their old relative order, followed by the     *)
(* members that are now paused, in their old relative order. On A,B,C,D    *)
(* with nobody paused, pausing B makes the active view A,C,D and unpausing *)
(* B then makes the queue A,C,D,B.                                         *)
TogglePauseRepartitions ==
    [][ last'.op = "togglePause" =>
          LET x == last'.who
              nowPaused(n) == IsPaused(state'.paused, n)
          IN  /\ IsPaused(state'.paused, x) = ~IsPaused(state.paused, x)
              /\ \A n \in (DOMAIN state.paused \cup Range(state.roommates)) \ {x} :
                    IsPaused(state'.paused, n) = IsPaused(state.paused, n)
              /\ state'.queue =
                    SelectSeq(state.queue, LAMBDA n : ~nowPaused(n))
                        \o SelectSeq(state.queue, nowPaused)
              /\ (state.queue = <<<<"A">>, <<"B">>, <<"C">>, <<"D">>>>
                    /\ PausedNames(state) = {} /\ x = <<"B">>)
                 => /\ activeQueue(state') = <<<<"A">>, <<"C">>, <<"D">>>>
                    /\ togglePause(state', x).queue
                          = <<<<"A">>, <<"C">>, <<"D">>, <<"B">>>> ]_vars

PausedThenUnpausedReached ==
    /\ last.op = "togglePause"
    /\ last.who = <<"B">>
    /\ <<"B">> \in DOMAIN state.paused
    /\ ~IsPaused(state.paused, <<"B">>)
    /\ state.queue = <<<<"A">>, <<"C">>, <<"D">>, <<"B">>>>

----------------------------------------------------------------------------
----------------------------------------------------------------------------
(* C15: the roster is always a non-empty sequence of names that are all    *)
(* different (a roster edit trims, drops blanks and duplicates, and        *)
(* refuses an empty list), and the queue never holds a name twice.         *)
(* Refuted: setRoommatesFromInput does not drop duplicates.                *)
RosterNamesUnique ==
    /\ state.roommates # <<>>
    /\ \A n \in Range(state.roommates) : Count(state.roommates, n) = 1
    /\ \A n \in Range(state.queue) : Count(state.queue, n) = 1

----------------------------------------------------------------------------
(* C16: reorder(fromIndex, toIndex) with an index outside 0 .. n-1, n the  *)
(* length of the active queue, fails and leaves the document unchanged;    *)
(* with equal indices it does nothing; with two different indices inside   *)
(* the range it moves the one member at fromIndex to toIndex within the    *)
(* active queue and puts the paused suffix back unchanged.                 *)
(* Refuted: reorderQueue has no range check.                               *)
MovedWithin(q, fromIdx, toIdx) ==
    LET rest == SubSeq(q, 1, fromIdx) \o SubSeq(q, fromIdx + 2, Len(q))
    IN  SubSeq(rest, 1, toIdx) \o <<q[fromIdx + 1]>> \o SubSeq(rest, toIdx + 1, Len(rest))

ReorderChecksRange ==
    [][ last'.op = "reorderQueueAt" =>
          LET fromIdx == last'.arg[1]
              toIdx   == last'.arg[2]
              inside  == 0..(Len(activeQueue(state)) - 1)
          IN  IF fromIdx \notin inside \/ toIdx \notin inside
              THEN state' = state
              ELSE IF fromIdx = toIdx
              THEN state' = state
              ELSE /\ state'.queue =
                        MovedWithin(activeQueue(state), fromIdx, toIdx) \o pausedList(state)
                   /\ state' = [state EXCEPT !.queue = state'.queue] ]_vars

----------------------------------------------------------------------------
(* C17: togglePause(name) with a name that is not in the roster fails and  *)
(* leaves the whole document unchanged; in particular it makes no          *)
(* paused-set entry for the name.                                          *)
(* Refuted: togglePause has no roster check and writes the entry.          *)
TogglePauseChecksRoster ==
    [][ (last'.op = "togglePauseNamed" /\ last'.who \notin Range(state.roommates)) =>
          /\ state' = state
          /\ last'.who \notin DOMAIN state'.paused \ DOMAIN state.paused ]_vars

----------------------------------------------------------------------------
(* C18: a reset that the user confirms sets the credit of every roster     *)
(* member to 0 and changes nothing else: the history, the queue, the       *)
(* paused-set, the PINs and the roster are as before; a reset that the     *)
(* user declines leaves the whole document unchanged.                      *)
ResetZeroesCreditsOnly ==
    [][ last'.op = "resetCredits" =>
          IF last'.declined
          THEN state' = state
          ELSE /\ \A n \in Range(state.roommates) :
                     n \in DOMAIN state'.credits /\ state'.credits[n] = 0
               /\ DOMAIN state'.credits = DOMAIN state.credits
               /\ state'.history = state.history
               /\ state'.queue = state.queue
               /\ state'.paused = state.paused
               /\ state'.pins = state.pins
               /\ state'.roommates = state.roommates ]_vars

\* a confirmed reset has taken away credit that the history still shows
CreditsResetReached ==
    /\ last.op = "resetCredits"
    /\ ~last.declined
    /\ state.history # <<>>
    /\ state.history[1].runBy \in Range(state.roommates)
    /\ \A n \in Range(state.roommates) : state.credits[n] = 0

----------------------------------------------------------------------------
(* C19: whenever a completion, full or quick, commits, every participant   *)
(* credited in it whose stored PIN is not empty had that PIN entered       *)
(* correctly in the same attempt.                                          *)
(* Refuted as stated: "I unloaded" by X asks for X's PIN only and credits  *)
(* the head of the active queue as runner, whatever PIN the head has.      *)
(* What holds: every credited participant with a PIN passed their own PIN  *)
(* check in the attempt, except the head of the active queue that a quick  *)
(* claim 'unload' by somebody else credits as runner.                      *)
PinCheckPassedFor(n) ==
    \/ last'.op = "handleComplete" /\ last'.auth = "pass"
    \/ last'.op = "quickClaim" /\ last'.auth = "pass" /\ n = last'.who

CreditedOnlyAfterOwnPin ==
    [][ last'.outcome = "committed" =>
          \A n \in {state'.history[1].runBy, state'.history[1].unloadBy} :
              PinOf(state.pins, n) # <<>> => PinCheckPassedFor(n) ]_vars

CreditedAfterOwnPinOrAsHead ==
    [][ last'.outcome = "committed" =>
          LET e == state'.history[1]
          IN  /\ PinOf(state.pins, e.unloadBy) # <<>> => PinCheckPassedFor(e.unloadBy)
              /\ PinOf(state.pins, e.runBy) # <<>> =>
                    \/ PinCheckPassedFor(e.runBy)
                    \/ /\ last'.op = "quickClaim"
                       /\ last'.arg = "unload"
                       /\ last'.auth = "pass"
                       /\ e.runBy # last'.who
                       /\ e.runBy = Head(activeQueue(state)) ]_vars

\* a completion has credited, as unloader, somebody who has a PIN
PinHolderCreditedReached ==
    /\ last.op = "handleComplete"
    /\ last.outcome = "committed"
    /\ last.auth = "pass"
    /\ state.history[1].unloadBy # state.history[1].runBy
    /\ PinOf(state.pins, state.history[1].unloadBy) # <<>>

----------------------------------------------------------------------------
(* C20: every name with a ledger entry is a member of the roster, and so   *)
(* are the runner and the unloader of a completion that has just been      *)
(* committed: a completion cannot commit, or make a ledger entry, for a    *)
(* name outside the roster.                                                *)
(* Refuted: handleComplete takes any typed name.                           *)
LedgerNamesInRoster ==
    /\ DOMAIN state.credits \subseteq Range(state.roommates)
    /\ last.outcome = "committed" =>
          /\ state.history[1].runBy \in Range(state.roommates)
          /\ state.history[1].unloadBy \in Range(state.roommates)

----------------------------------------------------------------------------
(* C21: the rotation is fair.  From any state whose active queue has       *)
(* n >= 1 members, when loads keep being committed and nobody reorders,    *)
(* pauses or edits the roster in between, every active member becomes the  *)
(* current assignee (the head of the active queue) within n completions:   *)
(* the member at place k of the active queue, counted from 0, is current   *)
(* after k completions; the member who was next is current after one       *)
(* completion; and no paused member ever becomes current.                  *)
Rotating == ops = MaxOps

RotationStep ==
    (Rotating /\ last'.outcome = "committed" /\ clock' = clock + 1) =>
        /\ PausedNames(state') = PausedNames(state)
        /\ next(state) # Null => current(state') = next(state)
        /\ \A m \in PausedNames(state) : current(state') # m
        /\ current(state) # Null =>
              /\ current(state') # Null
              /\ Len(activeQueue(state')) = Len(activeQueue(state))

\* the rotation starts with clock = 0: no load is recorded while the queue is
\* being arranged, so clock counts the completions since the start
RotationIsFair ==
    /\ [][RotationStep]_vars
    /\ \A m \in Names :
          ( Rotating /\ clock = 0 /\ m \in Range(activeQueue(state)) )
          ~> ( /\ current(state) = m
               /\ ~IsPaused(state.paused, m)
               /\ clock < Len(activeQueue(state)) )

\* with B paused, D, the last of the three active members A, C, D, has become
\* current after two loads
LastMemberCurrentReached ==
    /\ Rotating
    /\ clock = 2
    /\ last.outcome = "committed"
    /\ PausedNames(state) = {<<"B">>}
    /\ state.queue = <<<<"D">>, <<"A">>, <<"C">>, <<"B">>>>

====
